---- MODULE Spec2Model ----
(***************************************************************************)
(* Incremental batch acquisition pipeline of the BIST trading system:     *)
(* download_all_tickers.main (inventory scan, missing list, batch         *)
(* download, result display, summary report) on top of                    *)
(* BISTDataDownloader (download_ticker_data, download_multiple_tickers,   *)
(* validate_data, generate_summary_report), the progress checker          *)
(* (check_progress.check_download_progress) and the loader of the saved   *)
(* files (create_mega_viz.load_all_bist_data).                            *)
(*                                                                         *)
(* Strings are sequences of one-character strings, so that replace,       *)
(* split and endswith are computed on the characters as Python does.      *)
(***************************************************************************)
EXTENDS Integers, Sequences, FiniteSets, TLC

VARIABLES
    BIST_TICKERS,       \* config: the ordered universe of symbols
    DOWNLOAD_SETTINGS,  \* config: [period, interval, delay_between_requests]
    data_dir,           \* the "data" directory: file name -> content
    pc,                 \* position of the process
    run,                \* number of runs of main started so far
    existing_tickers,   \* main: result of get_existing_tickers()
    new_tickers,        \* main: result of get_new_tickers_to_download()
    i,                  \* download_multiple_tickers: 1-based loop index
    data,               \* download_ticker_data: the fetched table being saved
    results,            \* download_multiple_tickers: ticker -> table
    fetches,            \* history: tickers passed to tick.history this run
    outcomes,           \* history: how each finished attempt of this run ended
    sleeps,             \* history: the time.sleep(delay) calls of this run
    log,                \* the records the logger got in this run
    pre_dir,            \* history: data_dir when the current run started
    prev_failed,        \* history: tickers the previous run reported as failed
    prev_ret,           \* history: return value of the previous run
    report,             \* the summary report written by this run, or NoReport
    ret,                \* return value of the entry point (main), or "none"
    progress,           \* check_progress: what check_download_progress returned
    file_count          \* main: the existing and the new files of the final count

vars == <<BIST_TICKERS, DOWNLOAD_SETTINGS, data_dir, pc, run, existing_tickers,
          new_tickers, i, data, results, fetches, outcomes, sleeps, pre_dir,
          prev_failed, prev_ret, report, ret, log, progress, file_count>>

----------------------------------------------------------------------------
(* Bounds *)

MaxUniverse == 3    \* longest universe list
MaxRuns == 2        \* runs of main in one behaviour
MaxRows == 2        \* most rows of a table handed to validate_data
MaxNulls == 1       \* most null cells of a table handed to validate_data

----------------------------------------------------------------------------
(* Strings *)

Range(s) == {s[k] : k \in 1..Len(s)}

IS_SUFFIX == <<".", "I", "S">>
CSV_SUFFIX == <<".", "c", "s", "v">>
UNDERSCORE == <<"_">>

\* str.startswith(prefix)
startswith(s, prefix) ==
    /\ Len(s) >= Len(prefix)
    /\ SubSeq(s, 1, Len(prefix)) = prefix

\* str.endswith(suffix)
endswith(s, suffix) ==
    /\ Len(s) >= Len(suffix)
    /\ SubSeq(s, Len(s) - Len(suffix) + 1, Len(s)) = suffix

\* str.replace(old, new): every non-overlapping occurrence, left to right
RECURSIVE replace(_, _, _)
replace(s, old, new) ==
    IF s = <<>> THEN <<>>
    ELSE IF startswith(s, old)
         THEN new \o replace(SubSeq(s, Len(old) + 1, Len(s)), old, new)
         ELSE <<Head(s)>> \o replace(Tail(s), old, new)

\* str.split('_')[0]: the part before the first separator, the whole string
\* when there is none
RECURSIVE split_first(_, _)
split_first(s, sep) ==
    IF s = <<>> \/ startswith(s, sep) THEN <<>>
    ELSE <<Head(s)>> \o split_first(Tail(s), sep)

\* the parts of s between the separators (str.split(sep))
RECURSIVE split_all(_, _)
split_all(s, sep) ==
    LET first == split_first(s, sep)
    IN IF Len(first) = Len(s) THEN <<first>>
       ELSE <<first>> \o split_all(SubSeq(s, Len(first) + Len(sep) + 1, Len(s)), sep)

\* "sub in s"
RECURSIVE contains(_, _)
contains(s, sub) ==
    IF startswith(s, sub) THEN TRUE
    ELSE IF s = <<>> THEN FALSE
    ELSE contains(Tail(s), sub)

----------------------------------------------------------------------------
(* Configuration (config/config.py) *)

T_AIS == <<"A", ".", "I", "S">>
T_ABIS == <<"A", "B", ".", "I", "S">>
T_A_BIS == <<"A", "_", "B", ".", "I", "S">>
T_A == <<"A">>

\* the symbol strings a universe is built from, in configuration order
SymbolPool == <<T_ABIS, T_A_BIS, T_AIS, T_A>>

P_1y == <<"1", "y">>
P_6mo == <<"6", "m", "o">>
I_1d == <<"1", "d">>

Periods == {P_1y, P_6mo}
Intervals == {I_1d}
\* DOWNLOAD_SETTINGS.get('delay_between_requests', 1.0), in seconds
Delays == {0, 1}

RECURSIVE SubSeqsOf(_)
SubSeqsOf(s) ==
    IF s = <<>> THEN {<<>>}
    ELSE LET rest == SubSeqsOf(Tail(s))
         IN rest \cup {<<Head(s)>> \o r : r \in rest}

\* ordered sets of symbols: the subsequences of the pool, up to MaxUniverse
Universes == {u \in SubSeqsOf(SymbolPool) : Len(u) <= MaxUniverse}

----------------------------------------------------------------------------
(* Tables (pandas DataFrame as far as the pipeline looks at it) *)

REQUIRED_COLUMNS == {"Open", "High", "Low", "Close", "Volume"}

\* columns: the column names; Close: the close column, one value per row
\* (the row count when the column is missing is Len(Close) as well);
\* nulls: the number of null cells
Table(cols, close, nulls) == [columns |-> cols, Close |-> close, nulls |-> nulls]

T_good == Table(REQUIRED_COLUMNS, <<5, 7>>, 0)
T_badClose == Table(REQUIRED_COLUMNS, <<5, 0>>, 0)
T_noVolume == Table(REQUIRED_COLUMNS \ {"Volume"}, <<5, 7>>, 0)
T_empty == Table(REQUIRED_COLUMNS, <<>>, 0)

\* the non-empty tables the provider can return
FetchTables == {T_good, T_badClose, T_noVolume}

NoTable == [columns |-> {}, Close |-> <<>>, nulls |-> 0]

\* DataFrame.empty
empty(t) == t.Close = <<>> \/ t.columns = {}

----------------------------------------------------------------------------
(* File contents *)

\* a file written completely by download_ticker_data: the table with the
\* Ticker column set to the symbol
Artifact(ticker, t) == [kind |-> "artifact", Ticker |-> ticker, table |-> t]
\* what an interrupted or failed to_csv leaves under the final name
Partial == [kind |-> "partial", Ticker |-> <<>>, table |-> NoTable]
\* a file that no run of the pipeline wrote
Foreign == [kind |-> "foreign", Ticker |-> <<>>, table |-> NoTable]

\* the summary report file of a run: not written, or written with its rows
NoReport == [written |-> FALSE, rows |-> <<>>]
Report(rows) == [written |-> TRUE, rows |-> rows]

----------------------------------------------------------------------------
(* download_ticker_data: the artifact name *)

\* f"{ticker.replace('.IS', '')}_{period}_{interval}.csv"
filename(ticker, period, interval) ==
    replace(ticker, IS_SUFFIX, <<>>) \o UNDERSCORE \o period \o UNDERSCORE
        \o interval \o CSV_SUFFIX

\* the name download_ticker_data uses under the configured settings
artifact_name(ticker) ==
    filename(ticker, DOWNLOAD_SETTINGS.period, DOWNLOAD_SETTINGS.interval)

----------------------------------------------------------------------------
(* download_all_tickers: inventory scan and missing list *)

\* file.split('_')[0] + '.IS'
ticker_name(file) == split_first(file, UNDERSCORE) \o IS_SUFFIX

get_existing_tickers(dir) ==
    {ticker_name(file) : file \in {f \in DOMAIN dir : endswith(f, CSV_SUFFIX)}}

\* mutant of new_tickers_loop: inserts at the front instead of appending
RECURSIVE new_tickers_loop_prepend(_, _, _, _)
new_tickers_loop_prepend(tickers, k, existing, acc) ==
    IF k > Len(tickers) THEN acc
    ELSE new_tickers_loop_prepend(tickers, k + 1, existing,
                                  IF tickers[k] \notin existing
                                  THEN <<tickers[k]>> \o acc
                                  ELSE acc)

\* the loop over BIST_TICKERS[k..], appending to new_tickers
RECURSIVE new_tickers_loop(_, _, _, _)
new_tickers_loop(tickers, k, existing, acc) ==
    IF k > Len(tickers) THEN acc
    ELSE new_tickers_loop(tickers, k + 1, existing,
                          IF tickers[k] \notin existing
                          THEN Append(acc, tickers[k])
                          ELSE acc)

get_new_tickers_to_download(tickers, dir) ==
    new_tickers_loop(tickers, 1, get_existing_tickers(dir), <<>>)

----------------------------------------------------------------------------
(* BISTDataDownloader.validate_data and generate_summary_report *)

\* mutant of validate_data: null cells fail the validation
validate_data_nulls_fail(t) ==
    IF empty(t) THEN FALSE
    ELSE IF REQUIRED_COLUMNS \ t.columns # {} THEN FALSE
    ELSE IF \E k \in 1..Len(t.Close) : t.Close[k] <= 0 THEN FALSE
    ELSE IF t.nulls > 0 THEN FALSE
    ELSE TRUE

validate_data(t) ==
    IF empty(t) THEN FALSE
    ELSE IF REQUIRED_COLUMNS \ t.columns # {} THEN FALSE
    ELSE IF \E k \in 1..Len(t.Close) : t.Close[k] <= 0 THEN FALSE
    ELSE TRUE

\* one record of the logger: the message and what it carries
LogRecord(msg, cols, n) == [msg |-> msg, columns |-> cols, count |-> n]

\* the records validate_data hands to the logger, in order
validate_log(t) ==
    IF empty(t) THEN <<LogRecord("empty", {}, 0)>>
    ELSE IF REQUIRED_COLUMNS \ t.columns # {}
         THEN <<LogRecord("missing_columns", REQUIRED_COLUMNS \ t.columns, 0)>>
    ELSE IF \E k \in 1..Len(t.Close) : t.Close[k] <= 0
         THEN <<LogRecord("invalid_close", {}, 0)>>
    ELSE (IF t.nulls > 0
          THEN <<LogRecord("missing_values", {}, t.nulls)>>
          ELSE <<>>) \o <<LogRecord("passed", {}, 0)>>

\* one record of the logger of download_ticker_data
DownloadRecord(level, msg, ticker) == [level |-> level, msg |-> msg, ticker |-> ticker]

\* what download_ticker_data logs up to its return when tick.history raised
\* ("failed") or returned no rows ("empty")
no_data_log(o, ticker) ==
    <<DownloadRecord("info", "downloading", ticker),
      IF o = "empty"
      THEN DownloadRecord("warning", "no_data_received", ticker)
      ELSE DownloadRecord("error", "error_downloading", ticker)>>

SummaryRow(ticker, t) ==
    [Ticker |-> ticker, Records |-> Len(t.Close),
     Data_Quality |-> IF validate_data(t) THEN "Valid" ELSE "Issues"]

\* results.items() iterates in insertion order, which is the order of the
\* work list restricted to the keys of results
RECURSIVE summary_rows(_, _, _)
summary_rows(tickers, k, res) ==
    IF k > Len(tickers) THEN <<>>
    ELSE (IF tickers[k] \in DOMAIN res /\ ~empty(res[tickers[k]])
          THEN <<SummaryRow(tickers[k], res[tickers[k]])>>
          ELSE <<>>) \o summary_rows(tickers, k + 1, res)

generate_summary_report(tickers, res) == summary_rows(tickers, 1, res)

\* what the validate_data calls of generate_summary_report log
RECURSIVE summary_log(_, _, _)
summary_log(tickers, k, res) ==
    IF k > Len(tickers) THEN <<>>
    ELSE (IF tickers[k] \in DOMAIN res /\ ~empty(res[tickers[k]])
          THEN validate_log(res[tickers[k]])
          ELSE <<>>) \o summary_log(tickers, k + 1, res)

----------------------------------------------------------------------------
(* check_progress.check_download_progress *)

\* progress_percentage is the quotient num / den
Progress(total, downloaded, missing, missing_tickers) ==
    [raised |-> FALSE, total |-> total, downloaded |-> downloaded,
     missing |-> missing, missing_tickers |-> missing_tickers,
     progress |-> [num |-> downloaded * 100, den |-> total]]

\* the checker was not called
NoProgress == Progress(0, 0, 0, {})

\* downloaded_count / total_tickers raises ZeroDivisionError
ProgressRaised == [NoProgress EXCEPT !.raised = TRUE]

check_download_progress(tickers, dir) ==
    LET existing_files == {f \in DOMAIN dir : endswith(f, CSV_SUFFIX)}
        downloaded_tickers == {ticker_name(file) : file \in existing_files}
        missing_tickers == Range(tickers) \ downloaded_tickers
    IN IF Len(tickers) = 0 THEN ProgressRaised
       ELSE Progress(Len(tickers), Cardinality(downloaded_tickers),
                     Cardinality(missing_tickers), missing_tickers)

----------------------------------------------------------------------------
(* download_all_tickers.main: the final file count *)

\* the final file count was not reached
NoFileCount == [existing_files |-> {}, new_files |-> {}]

\* existing_files: the csv files whose name contains the code of some
\* existing ticker; new_files: the other csv files
final_file_count(existing, dir) ==
    LET data_files == {f \in DOMAIN dir : endswith(f, CSV_SUFFIX)}
        existing_files ==
            {f \in data_files :
                \E ticker \in existing : contains(f, replace(ticker, IS_SUFFIX, <<>>))}
    IN [existing_files |-> existing_files,
        new_files |-> data_files \ existing_files]

----------------------------------------------------------------------------
(* Initial state *)

F_notes == <<"n", ".", "t", "x", "t">>
F_junk == <<"A", "B", "_", "x", ".", "c", "s", "v">>
F_old == filename(T_AIS, P_6mo, I_1d)

EmptyDir == [f \in {} |-> Foreign]

\* what the data directory may hold before the first run: nothing, an
\* unrelated file, a stray csv file, an artifact of an earlier download
InitialDirs ==
    { EmptyDir,
      F_notes :> Foreign,
      F_junk :> Foreign,
      F_old :> Artifact(T_AIS, T_good) }

NoResults == [t \in {} |-> NoTable]

\* the settings and the directory a first run starts with: the period of the
\* earlier download is or is not the configured one; the other directories
\* behave alike under every period and every delay and come with one of each
InitialConfigs ==
    {c \in [period : Periods, interval : Intervals,
            delay_between_requests : Delays] \X InitialDirs :
        /\ c[1].period = P_6mo
              => c[2] = (F_old :> Artifact(T_AIS, T_good))
                 /\ c[1].delay_between_requests = 1
        /\ c[1].delay_between_requests = 0 => c[2] = EmptyDir}

Init ==
    /\ BIST_TICKERS \in Universes
    /\ \E c \in InitialConfigs : DOWNLOAD_SETTINGS = c[1] /\ data_dir = c[2]
    /\ pc = "idle"
    /\ run = 0
    /\ existing_tickers = {}
    /\ new_tickers = <<>>
    /\ i = 1
    /\ data = NoTable
    /\ results = NoResults
    /\ fetches = <<>>
    /\ outcomes = <<>>
    /\ sleeps = <<>>
    /\ log = <<>>
    /\ pre_dir = data_dir
    /\ prev_failed = {}
    /\ prev_ret = "none"
    /\ report = NoReport
    /\ ret = "none"
    /\ progress = NoProgress
    /\ file_count = NoFileCount

----------------------------------------------------------------------------
(* download_all_tickers.main, up to the call of download_multiple_tickers *)

\* mutant of StartRun: an empty missing list ends main with failure
StartRun_empty_is_failure ==
    /\ pc \in {"idle", "done", "crashed"}
    /\ run < MaxRuns
    /\ run' = run + 1
    /\ existing_tickers' = get_existing_tickers(data_dir)
    /\ new_tickers' = get_new_tickers_to_download(BIST_TICKERS, data_dir)
    /\ prev_failed' = {fetches[k] : k \in {j \in 1..Len(outcomes) : outcomes[j] # "ok"}}
    /\ prev_ret' = ret
    /\ pre_dir' = data_dir
    /\ i' = 1
    /\ data' = NoTable
    /\ results' = NoResults
    /\ fetches' = <<>>
    /\ outcomes' = <<>>
    /\ sleeps' = <<>>
    /\ log' = <<>>
    /\ report' = NoReport
    /\ file_count' = NoFileCount
    /\ IF new_tickers' = <<>>
       THEN pc' = "done" /\ ret' = "False"
       ELSE pc' = "fetch" /\ ret' = "none"
    /\ UNCHANGED <<progress, BIST_TICKERS, DOWNLOAD_SETTINGS, data_dir>>

StartRun ==
    /\ pc \in {"idle", "done", "crashed"}
    /\ run < MaxRuns
    /\ run' = run + 1
    /\ existing_tickers' = get_existing_tickers(data_dir)
    /\ new_tickers' = get_new_tickers_to_download(BIST_TICKERS, data_dir)
    /\ prev_failed' = {fetches[k] : k \in {j \in 1..Len(outcomes) : outcomes[j] # "ok"}}
    /\ prev_ret' = ret
    /\ pre_dir' = data_dir
    /\ i' = 1
    /\ data' = NoTable
    /\ results' = NoResults
    /\ fetches' = <<>>
    /\ outcomes' = <<>>
    /\ sleeps' = <<>>
    /\ log' = <<>>
    /\ report' = NoReport
    /\ file_count' = NoFileCount
    /\ IF new_tickers' = <<>>
       THEN pc' = "done" /\ ret' = "True"
       ELSE pc' = "fetch" /\ ret' = "none"
    /\ UNCHANGED <<progress, BIST_TICKERS, DOWNLOAD_SETTINGS, data_dir>>

----------------------------------------------------------------------------
(* download_multiple_tickers: one loop iteration is download_ticker_data  *)
(* (Fetch, then Persist when the table is not empty), the results update  *)
(* and the pacing sleep                                                   *)

\* where the loop goes after the attempt at index i
after_attempt == IF i < Len(new_tickers) THEN "sleep" ELSE "finish"

\* mutant of Fetch: the exception of tick.history is not caught in
\* download_ticker_data and ends the batch in the handler of main
Fetch_no_except ==
    /\ pc = "fetch"
    /\ fetches' = Append(fetches, new_tickers[i])
    /\ \/ /\ outcomes' = Append(outcomes, "failed")
          /\ log' = Append(log, DownloadRecord("info", "downloading", new_tickers[i]))
          /\ data' = NoTable
          /\ pc' = "done"
          /\ ret' = "False"
       \/ /\ outcomes' = Append(outcomes, "empty")
          /\ log' = log \o no_data_log("empty", new_tickers[i])
          /\ data' = NoTable
          /\ pc' = after_attempt
          /\ ret' = ret
       \/ \E t \in FetchTables :
            /\ data' = t
            /\ outcomes' = outcomes
            /\ log' = Append(log, DownloadRecord("info", "downloading", new_tickers[i]))
            /\ pc' = "persist"
            /\ ret' = ret
    /\ UNCHANGED <<file_count, progress, BIST_TICKERS, DOWNLOAD_SETTINGS, data_dir, run,
                   existing_tickers, new_tickers, i, results, sleeps, pre_dir,
                   prev_failed, prev_ret, report>>

\* mutant of Fetch: the table is saved before the data.empty test, so an
\* empty result leaves a file
Fetch_write_empty ==
    /\ pc = "fetch"
    /\ fetches' = Append(fetches, new_tickers[i])
    /\ \/ /\ outcomes' = Append(outcomes, "failed")
          /\ log' = log \o no_data_log("failed", new_tickers[i])
          /\ data_dir' = data_dir
          /\ data' = NoTable
          /\ pc' = after_attempt
       \/ /\ outcomes' = Append(outcomes, "empty")
          /\ log' = log \o no_data_log("empty", new_tickers[i])
          /\ data_dir' = (artifact_name(new_tickers[i])
                            :> Artifact(new_tickers[i], T_empty)) @@ data_dir
          /\ data' = NoTable
          /\ pc' = after_attempt
       \/ \E t \in FetchTables :
            /\ data' = t
            /\ log' = Append(log, DownloadRecord("info", "downloading", new_tickers[i]))
            /\ data_dir' = data_dir
            /\ outcomes' = outcomes
            /\ pc' = "persist"
    /\ UNCHANGED <<file_count, progress, BIST_TICKERS, DOWNLOAD_SETTINGS, run, existing_tickers,
                   new_tickers, i, results, sleeps, pre_dir, prev_failed,
                   prev_ret, report, ret>>

\* mutant of Fetch: the empty table is not tested with data.empty but
\* raises further down, so the handler logs it like a provider error
Fetch_empty_raises ==
    /\ pc = "fetch"
    /\ fetches' = Append(fetches, new_tickers[i])
    /\ \/ \E o \in {"failed", "empty"} :
            /\ outcomes' = Append(outcomes, o)
            /\ log' = log \o no_data_log("failed", new_tickers[i])
            /\ data' = NoTable
            /\ pc' = after_attempt
       \/ \E t \in FetchTables :
            /\ data' = t
            /\ outcomes' = outcomes
            /\ log' = Append(log, DownloadRecord("info", "downloading", new_tickers[i]))
            /\ pc' = "persist"
    /\ UNCHANGED <<file_count, progress, BIST_TICKERS, DOWNLOAD_SETTINGS, data_dir, run,
                   existing_tickers, new_tickers, i, results, sleeps, pre_dir,
                   prev_failed, prev_ret, report, ret>>

\* tick.history(...): raises, returns no rows, or returns a table
Fetch ==
    /\ pc = "fetch"
    /\ fetches' = Append(fetches, new_tickers[i])
    /\ \/ \E o \in {"failed", "empty"} :
            /\ outcomes' = Append(outcomes, o)
            /\ log' = log \o no_data_log(o, new_tickers[i])
            /\ data' = NoTable
            /\ pc' = after_attempt
       \/ \E t \in FetchTables :
            /\ data' = t
            /\ outcomes' = outcomes
            /\ log' = Append(log, DownloadRecord("info", "downloading", new_tickers[i]))
            /\ pc' = "persist"
    /\ UNCHANGED <<file_count, progress, BIST_TICKERS, DOWNLOAD_SETTINGS, data_dir, run,
                   existing_tickers, new_tickers, i, results, sleeps, pre_dir,
                   prev_failed, prev_ret, report, ret>>

\* mutant of Persist: a table that fails validate_data is not saved
Persist_only_valid ==
    /\ pc = "persist"
    /\ LET ticker == new_tickers[i]
           file == artifact_name(ticker)
       IN IF validate_data(data)
          THEN /\ data_dir' = (file :> Artifact(ticker, data)) @@ data_dir
               /\ results' = (ticker :> data) @@ results
               /\ outcomes' = Append(outcomes, "ok")
               /\ log' = Append(log, DownloadRecord("info", "downloaded", ticker))
          ELSE /\ data_dir' = data_dir
               /\ results' = results
               /\ outcomes' = Append(outcomes, "invalid")
               /\ log' = log
    /\ data' = NoTable
    /\ pc' = after_attempt
    /\ UNCHANGED <<file_count, progress, BIST_TICKERS, DOWNLOAD_SETTINGS, run, existing_tickers,
                   new_tickers, i, fetches, sleeps, pre_dir, prev_failed,
                   prev_ret, report, ret>>

\* data.to_csv(filepath): writes the whole file under its final name, or
\* raises after the file was created and partly written, or raises before
\* anything was created
Persist ==
    /\ pc = "persist"
    /\ LET ticker == new_tickers[i]
           file == artifact_name(ticker)
       IN \/ /\ data_dir' = (file :> Artifact(ticker, data)) @@ data_dir
             /\ results' = (ticker :> data) @@ results
             /\ outcomes' = Append(outcomes, "ok")
             /\ log' = Append(log, DownloadRecord("info", "downloaded", ticker))
          \/ /\ data_dir' = (file :> Partial) @@ data_dir
             /\ results' = results
             /\ outcomes' = Append(outcomes, "write_error")
             /\ log' = Append(log, DownloadRecord("error", "error_downloading", ticker))
          \/ /\ data_dir' = data_dir
             /\ results' = results
             /\ outcomes' = Append(outcomes, "write_error")
             /\ log' = Append(log, DownloadRecord("error", "error_downloading", ticker))
    /\ data' = NoTable
    /\ pc' = after_attempt
    /\ UNCHANGED <<file_count, progress, BIST_TICKERS, DOWNLOAD_SETTINGS, run, existing_tickers,
                   new_tickers, i, fetches, sleeps, pre_dir, prev_failed, prev_ret,
                   report, ret>>

\* the process is killed while to_csv is writing
Crash ==
    /\ pc = "persist"
    /\ data_dir' = (artifact_name(new_tickers[i]) :> Partial) @@ data_dir
    /\ data' = NoTable
    /\ pc' = "crashed"
    /\ UNCHANGED <<file_count, progress, BIST_TICKERS, DOWNLOAD_SETTINGS, run, existing_tickers,
                   new_tickers, i, results, fetches, outcomes, sleeps, pre_dir,
                   prev_failed, prev_ret, report, ret,
                   log>>

\* the process is interrupted (SIGINT) during the pause between two
\* tickers: KeyboardInterrupt is not an Exception, so neither the handler of
\* download_ticker_data nor the one of main catches it
Interrupt ==
    /\ pc = "sleep"
    /\ pc' = "crashed"
    /\ UNCHANGED <<file_count, progress, BIST_TICKERS, DOWNLOAD_SETTINGS, data_dir, run,
                   existing_tickers, new_tickers, i, data, results, fetches,
                   outcomes, sleeps, pre_dir, prev_failed, prev_ret, report, ret,
                   log>>

\* mutant of Sleep: a ticker whose attempt failed is tried again
Sleep_retry ==
    /\ pc = "sleep"
    /\ sleeps' = Append(sleeps, DOWNLOAD_SETTINGS.delay_between_requests)
    /\ i' = IF outcomes[Len(outcomes)] = "ok" THEN i + 1 ELSE i
    /\ pc' = "fetch"
    /\ UNCHANGED <<file_count, progress, BIST_TICKERS, DOWNLOAD_SETTINGS, data_dir, run,
                   existing_tickers, new_tickers, data, results, fetches,
                   outcomes, pre_dir, prev_failed, prev_ret, report, ret,
                   log>>

\* mutant of Sleep: no pause after an attempt that failed
Sleep_not_after_failure ==
    /\ pc = "sleep"
    /\ sleeps' = IF outcomes[Len(outcomes)] = "ok"
                 THEN Append(sleeps, DOWNLOAD_SETTINGS.delay_between_requests)
                 ELSE sleeps
    /\ i' = i + 1
    /\ pc' = "fetch"
    /\ UNCHANGED <<file_count, progress, BIST_TICKERS, DOWNLOAD_SETTINGS, data_dir, run,
                   existing_tickers, new_tickers, data, results, fetches,
                   outcomes, pre_dir, prev_failed, prev_ret, report, ret,
                   log>>

\* time.sleep(delay) between two requests
Sleep ==
    /\ pc = "sleep"
    /\ sleeps' = Append(sleeps, DOWNLOAD_SETTINGS.delay_between_requests)
    /\ i' = i + 1
    /\ pc' = "fetch"
    /\ UNCHANGED <<file_count, progress, BIST_TICKERS, DOWNLOAD_SETTINGS, data_dir, run,
                   existing_tickers, new_tickers, data, results, fetches,
                   outcomes, pre_dir, prev_failed, prev_ret, report, ret,
                   log>>

----------------------------------------------------------------------------
(* download_all_tickers.main after the batch: result display, summary     *)
(* report, return value                                                   *)

\* data['Close'] / data['Volume'] of the display loop raise KeyError when
\* the column is missing
display_raises(tickers, res) ==
    \E k \in 1..Len(tickers) :
        /\ tickers[k] \in DOMAIN res
        /\ {"Close", "Volume"} \ res[tickers[k]].columns # {}

FinishRun ==
    /\ pc = "finish"
    /\ IF display_raises(new_tickers, results)
       THEN /\ report' = NoReport
            /\ log' = log
            /\ file_count' = NoFileCount
            /\ ret' = "False"
       ELSE /\ report' = IF DOMAIN results # {}
                         THEN Report(generate_summary_report(new_tickers, results))
                         ELSE NoReport
            /\ log' = IF DOMAIN results # {}
                      THEN log \o summary_log(new_tickers, 1, results)
                      ELSE log
            /\ file_count' = final_file_count(existing_tickers, data_dir)
            /\ ret' = "True"
    /\ pc' = "done"
    /\ UNCHANGED <<progress, BIST_TICKERS, DOWNLOAD_SETTINGS, data_dir, run,
                   existing_tickers, new_tickers, i, data, results, fetches,
                   outcomes, sleeps, pre_dir, prev_failed,
                   prev_ret>>

----------------------------------------------------------------------------

Next ==
    \/ StartRun
    \/ Fetch
    \/ Persist
    \/ Crash
    \/ Interrupt
    \/ Sleep
    \/ FinishRun

Spec == Init /\ [][Next]_vars

----------------------------------------------------------------------------
(* validate_data called on its own (test_download.py line 84): the table  *)
(* is in data, the return value in ret, the logger records in log         *)

RECURSIVE SeqsUpTo(_, _)
SeqsUpTo(S, n) ==
    IF n = 0 THEN {<<>>}
    ELSE LET shorter == SeqsUpTo(S, n - 1)
         IN shorter \cup {Append(q, x) : q \in shorter, x \in S}

CloseValues == {-1, 0, 5}

ValidateTables ==
    {Table(cols, close, n) : cols \in SUBSET REQUIRED_COLUMNS,
                             close \in SeqsUpTo(CloseValues, MaxRows),
                             n \in 0..MaxNulls}

InitValidate ==
    /\ BIST_TICKERS = <<>>
    /\ DOWNLOAD_SETTINGS = [period |-> P_1y, interval |-> I_1d,
                            delay_between_requests |-> 1]
    /\ data_dir = EmptyDir
    /\ pc = "validate"
    /\ run = 0
    /\ existing_tickers = {}
    /\ new_tickers = <<>>
    /\ i = 1
    /\ data \in ValidateTables
    /\ results = NoResults
    /\ fetches = <<>>
    /\ outcomes = <<>>
    /\ sleeps = <<>>
    /\ log = <<>>
    /\ pre_dir = data_dir
    /\ prev_failed = {}
    /\ prev_ret = "none"
    /\ report = NoReport
    /\ ret = "none"
    /\ progress = NoProgress
    /\ file_count = NoFileCount

ValidateCall ==
    /\ pc = "validate"
    /\ ret' = IF validate_data(data) THEN "True" ELSE "False"
    /\ log' = validate_log(data)
    /\ pc' = "validated"
    /\ UNCHANGED <<file_count, progress, BIST_TICKERS, DOWNLOAD_SETTINGS, data_dir, run,
                   existing_tickers, new_tickers, i, data, results, fetches,
                   outcomes, sleeps, pre_dir, prev_failed, prev_ret, report>>

NextValidate == ValidateCall

SpecValidate == InitValidate /\ [][NextValidate]_vars

----------------------------------------------------------------------------
(* check_progress.main: check_download_progress run on a data directory;  *)
(* the returned record is in progress, the return value of main in ret    *)

\* the csv and other files a data directory may hold
ProgressFiles ==
    {F_notes, F_junk, F_old}
        \cup {filename(SymbolPool[k], P_1y, I_1d) : k \in 1..Len(SymbolPool)}

ProgressDirs == {[f \in S |-> Foreign] : S \in SUBSET ProgressFiles}

InitProgress ==
    /\ BIST_TICKERS \in Universes
    /\ DOWNLOAD_SETTINGS = [period |-> P_1y, interval |-> I_1d,
                            delay_between_requests |-> 1]
    /\ data_dir \in ProgressDirs
    /\ pc = "check"
    /\ run = 0
    /\ existing_tickers = {}
    /\ new_tickers = <<>>
    /\ i = 1
    /\ data = NoTable
    /\ results = NoResults
    /\ fetches = <<>>
    /\ outcomes = <<>>
    /\ sleeps = <<>>
    /\ log = <<>>
    /\ pre_dir = data_dir
    /\ prev_failed = {}
    /\ prev_ret = "none"
    /\ report = NoReport
    /\ ret = "none"
    /\ progress = NoProgress
    /\ file_count = NoFileCount

CheckProgress ==
    /\ pc = "check"
    /\ progress' = check_download_progress(BIST_TICKERS, data_dir)
    /\ ret' = IF progress'.raised THEN "False" ELSE "True"
    /\ pc' = "checked"
    /\ UNCHANGED <<BIST_TICKERS, DOWNLOAD_SETTINGS, data_dir, run,
                   existing_tickers, new_tickers, i, data, results, fetches,
                   outcomes, sleeps, pre_dir, prev_failed, prev_ret, report,
                   log, file_count>>

NextProgress == CheckProgress

SpecProgress == InitProgress /\ [][NextProgress]_vars

----------------------------------------------------------------------------
(* Saving a table (download_ticker_data, lines 77-83) and loading it back *)
(* (create_mega_viz.load_all_bist_data, lines 29-40). A table is its      *)
(* index, its column names and its rows of cells; a csv file is its       *)
(* header and its lines of text.                                          *)

\* a cell: kind is "ts" (timestamp: val is the day, utcoffset the hours of
\* its UTC offset), "float" (val in tenths), "int" or "str"
Cell(kind, val, off) == [kind |-> kind, val |-> val, utcoffset |-> off]
TS(day, off) == Cell("ts", day, off)
FloatCell(tenths) == Cell("float", tenths, 0)
IntCell(n) == Cell("int", n, 0)
StrCell(chars) == Cell("str", chars, 0)

Frame(index, columns, rows) == [index |-> index, columns |-> columns, rows |-> rows]

Digit == <<"0", "1", "2", "3", "4", "5", "6", "7", "8", "9">>
COMMA == <<",">>
POINT == <<".">>
PLUS == <<"+">>

\* str(n)
RECURSIVE digits(_)
digits(n) ==
    IF n < 10 THEN <<Digit[n + 1]>>
    ELSE digits(n \div 10) \o <<Digit[(n % 10) + 1]>>

\* int(s) of a string of digits
RECURSIVE number(_)
number(s) ==
    IF s = <<>> THEN 0
    ELSE number(SubSeq(s, 1, Len(s) - 1)) * 10
           + (CHOOSE d \in 0..9 : Digit[d + 1] = s[Len(s)])

is_digits(s) == s # <<>> /\ \A k \in 1..Len(s) : s[k] \in Range(Digit)

\* the text of a timestamp: the day, then the UTC offset, as in
\* "2015-01-05 00:00:00+02:00" without the parts that are the same in all
format_ts(c) ==
    <<Digit[(c.val \div 10) + 1], Digit[(c.val % 10) + 1]>> \o PLUS
        \o <<Digit[(c.utcoffset \div 10) + 1], Digit[(c.utcoffset % 10) + 1]>>

is_ts_text(s) ==
    /\ Len(s) = 5
    /\ is_digits(SubSeq(s, 1, 2))
    /\ SubSeq(s, 3, 3) = PLUS
    /\ is_digits(SubSeq(s, 4, 5))

parse_ts(s) == TS(number(SubSeq(s, 1, 2)), number(SubSeq(s, 4, 5)))

\* repr of a float: integer part, point, fraction
format_float(c) == digits(c.val \div 10) \o POINT \o digits(c.val % 10)

is_float_text(s) ==
    LET whole == split_first(s, POINT)
    IN /\ Len(s) = Len(whole) + 2
       /\ is_digits(whole)
       /\ is_digits(SubSeq(s, Len(s), Len(s)))

parse_float(s) ==
    IF is_digits(s) THEN FloatCell(number(s) * 10)
    ELSE FloatCell(number(split_first(s, POINT)) * 10 + number(SubSeq(s, Len(s), Len(s))))

format_cell(c) ==
    CASE c.kind = "ts" -> format_ts(c)
      [] c.kind = "float" -> format_float(c)
      [] c.kind = "int" -> digits(c.val)
      [] OTHER -> c.val

\* sep.join(parts)
RECURSIVE join(_, _)
join(parts, sep) ==
    IF parts = <<>> THEN <<>>
    ELSE IF Len(parts) = 1 THEN parts[1]
    ELSE parts[1] \o sep \o join(Tail(parts), sep)

\* a csv file: the header names and one line of text per row
CsvFile(header, lines) ==
    [kind |-> "csv", Ticker |-> <<>>, table |-> NoTable,
     header |-> header, lines |-> lines]

\* DataFrame.to_csv(path): the index label and the column names, then per
\* row the index value and the cells, comma separated
to_csv(frame) ==
    CsvFile(<<"Date">> \o frame.columns,
            [k \in 1..Len(frame.index) |->
                join(<<format_ts(frame.index[k])>>
                       \o [c \in 1..Len(frame.columns) |->
                              format_cell(frame.rows[k][c])],
                     COMMA)])

\* parse_dates=True on the index: a DatetimeIndex when every value parses
\* and all have the same UTC offset; with mixed offsets the index is
\* returned unaltered, as strings
convert_index(texts) ==
    IF /\ \A k \in 1..Len(texts) : is_ts_text(texts[k])
       /\ \A a, b \in 1..Len(texts) :
             parse_ts(texts[a]).utcoffset = parse_ts(texts[b]).utcoffset
    THEN [k \in 1..Len(texts) |-> parse_ts(texts[k])]
    ELSE [k \in 1..Len(texts) |-> StrCell(texts[k])]

\* type inference of a data column: int64, else float64, else strings
convert_column(texts) ==
    IF \A k \in 1..Len(texts) : is_digits(texts[k])
    THEN [k \in 1..Len(texts) |-> IntCell(number(texts[k]))]
    ELSE IF \A k \in 1..Len(texts) : is_digits(texts[k]) \/ is_float_text(texts[k])
    THEN [k \in 1..Len(texts) |-> parse_float(texts[k])]
    ELSE [k \in 1..Len(texts) |-> StrCell(texts[k])]

\* pd.read_csv(path, index_col=0, parse_dates=True)
read_csv(file) ==
    LET cells == [k \in 1..Len(file.lines) |-> split_all(file.lines[k], COMMA)]
        ncols == Len(file.header) - 1
        index == convert_index([k \in 1..Len(cells) |-> cells[k][1]])
        column(c) == convert_column([k \in 1..Len(cells) |-> cells[k][c + 1]])
    IN Frame(index,
             [c \in 1..ncols |-> file.header[c + 1]],
             [k \in 1..Len(cells) |-> [c \in 1..ncols |-> column(c)[k]]])

\* the columns of a table of tick.history, and the values of their cells
HistoryColumns == <<"Open", "High", "Low", "Close", "Volume">>
HistoryRows ==
    { <<FloatCell(55), FloatCell(70), FloatCell(50), FloatCell(62), IntCell(120)>>,
      <<FloatCell(62), FloatCell(62), FloatCell(60), FloatCell(60), IntCell(0)>> }
\* trading days before and after the change of the exchange's UTC offset
Timestamps == {TS(d, off) : d \in {4, 11}, off \in {2, 3}}

HistoryFrames ==
    {Frame([k \in 1..Len(q) |-> q[k][1]], HistoryColumns,
           [k \in 1..Len(q) |-> q[k][2]]) :
        q \in SeqsUpTo(Timestamps \X HistoryRows, MaxRows) \ {<<>>}}

InitRoundTrip ==
    /\ \E k \in 1..Len(SymbolPool) : BIST_TICKERS = <<SymbolPool[k]>>
    /\ DOWNLOAD_SETTINGS = [period |-> P_1y, interval |-> I_1d,
                            delay_between_requests |-> 1]
    /\ data_dir = EmptyDir
    /\ pc = "save"
    /\ run = 0
    /\ existing_tickers = {}
    /\ new_tickers = BIST_TICKERS
    /\ i = 1
    /\ data \in HistoryFrames
    /\ results = NoResults
    /\ fetches = <<>>
    /\ outcomes = <<>>
    /\ sleeps = <<>>
    /\ log = <<>>
    /\ pre_dir = data_dir
    /\ prev_failed = {}
    /\ prev_ret = "none"
    /\ report = NoReport
    /\ ret = "none"
    /\ progress = NoProgress
    /\ file_count = NoFileCount

\* data['Ticker'] = ticker; data.to_csv(filepath)
SaveCsv ==
    /\ pc = "save"
    /\ data' = Frame(data.index, Append(data.columns, "Ticker"),
                     [k \in 1..Len(data.rows) |->
                        Append(data.rows[k], StrCell(new_tickers[i]))])
    /\ data_dir' = (artifact_name(new_tickers[i]) :> to_csv(data')) @@ data_dir
    /\ pc' = "saved"
    /\ UNCHANGED <<BIST_TICKERS, DOWNLOAD_SETTINGS, run, existing_tickers,
                   new_tickers, i, results, fetches, outcomes, sleeps, pre_dir,
                   prev_failed, prev_ret, report, ret, log, progress, file_count>>

\* load_all_bist_data: every csv file is read and kept under the ticker
\* name derived from its file name when it has rows, Close and Volume
LoadCsv ==
    /\ pc = "saved"
    /\ results' =
          LET csv_files == {f \in DOMAIN data_dir : endswith(f, CSV_SUFFIX)}
              loaded == {f \in csv_files :
                           /\ read_csv(data_dir[f]).index # <<>>
                           /\ {"Close", "Volume"}
                                 \subseteq Range(read_csv(data_dir[f]).columns)}
          IN [t \in {ticker_name(f) : f \in loaded} |->
                read_csv(data_dir[CHOOSE f \in loaded : ticker_name(f) = t])]
    /\ pc' = "loaded"
    /\ UNCHANGED <<BIST_TICKERS, DOWNLOAD_SETTINGS, data_dir, run,
                   existing_tickers, new_tickers, i, data, fetches, outcomes,
                   sleeps, pre_dir, prev_failed, prev_ret, report, ret, log,
                   progress, file_count>>

NextRoundTrip == SaveCsv \/ LoadCsv

SpecRoundTrip == InitRoundTrip /\ [][NextRoundTrip]_vars

TypeOK ==
    /\ pc \in {"idle", "fetch", "persist", "sleep", "finish", "done", "crashed",
               "validate", "validated", "check", "checked", "save", "saved",
               "loaded"}
    /\ run \in 0..MaxRuns
    /\ i \in 1..(MaxUniverse + 1)

----------------------------------------------------------------------------
(* Properties *)

\* the tickers whose artifact download_ticker_data wrote into dir
written_tickers(dir) == {dir[f].Ticker : f \in {g \in DOMAIN dir : dir[g].kind = "artifact"}}

\* the files of dir that an interrupted or failed write left behind
partial_files(dir) == {f \in DOMAIN dir : dir[f].kind = "partial"}

\* s is duplicate free and its elements come in the order they have in t
InOrderOf(s, t) ==
    \A a, b \in 1..Len(s) :
        a < b => \E x, y \in 1..Len(t) : x < y /\ t[x] = s[a] /\ t[y] = s[b]

IsPrefix(s, t) == Len(s) <= Len(t) /\ s = SubSeq(t, 1, Len(s))

\* the batch of the current run returned to main
batch_returned == pc \in {"finish", "done"} /\ new_tickers # <<>>

\* C1: a run never fetches a universe symbol whose artifact was written to
\* the data directory by download_ticker_data before the run started.
C1_AtMostOnce ==
    \A k \in 1..Len(fetches) : fetches[k] \notin written_tickers(pre_dir)

\* C2: when the first run persisted every symbol it attempted and returned
\* success, and nothing was deleted, the second run performs no fetch.
C2_SecondRunFetchesNothing ==
    (run >= 2 /\ prev_ret = "True" /\ prev_failed = {}) => fetches = <<>>

\* C3: a failed attempt (fetch exception, empty result, write error) never
\* ends the batch: when the batch returns, every ticker of the work list was
\* attempted, and every attempt whose fetch and write succeed stores the
\* artifact of its ticker.
C3_BatchResilience ==
    /\ [](batch_returned => fetches = new_tickers)
    /\ [][(pc = "persist" /\ outcomes' = Append(outcomes, "ok"))
            => /\ artifact_name(new_tickers[i]) \in DOMAIN data_dir'
               /\ data_dir'[artifact_name(new_tickers[i])]
                    = Artifact(new_tickers[i], data)]_vars

\* C3 witness: three attempts, the second failed, the first and the third
\* were fetched and written.
C3_Witness ==
    /\ pc = "done"
    /\ Len(outcomes) = 3
    /\ outcomes[1] = "ok" /\ outcomes[2] = "failed" /\ outcomes[3] = "ok"
    /\ \A k \in {1, 3} : artifact_name(fetches[k]) \in DOMAIN data_dir

\* C4: the summary report of a run has exactly one row for every attempted
\* symbol, also for those that ended Empty or Failed.
C4_ReportComplete ==
    (pc = "done" /\ report.written) =>
        /\ Len(report.rows) = Len(new_tickers)
        /\ \A k \in 1..Len(new_tickers) : report.rows[k].Ticker = new_tickers[k]

\* C5: every run that attempted at least one symbol and ran to its end has
\* written a summary report.
C5_AlwaysReport ==
    (pc = "done" /\ fetches # <<>>) => report.written

\* C6: a write that failed or was interrupted leaves no file that the
\* inventory scan counts.
C6_AtomicPersistence ==
    get_existing_tickers([f \in partial_files(data_dir) |-> data_dir[f]]) = {}

\* C7: a symbol whose attempt failed in the previous run is in the missing
\* list of this run, and fetched by it when the batch returns.
C7_FailedRetriedNextRun ==
    /\ prev_failed \subseteq Range(new_tickers)
    /\ batch_returned => prev_failed \subseteq Range(fetches)

\* C8: the scanner derives from the name of every artifact the symbol that
\* download_ticker_data wrote it for, and two distinct symbols fetched in a
\* run have distinct artifact names.
C8_NamingInvertible ==
    /\ \A f \in DOMAIN data_dir :
          data_dir[f].kind = "artifact" => ticker_name(f) = data_dir[f].Ticker
    /\ \A a, b \in 1..Len(fetches) :
          fetches[a] # fetches[b] => artifact_name(fetches[a]) # artifact_name(fetches[b])

\* C9: the missing list holds exactly the universe symbols that are not in
\* the scanned inventory, in the order of the universe.
C9_MissingList ==
    run >= 1 =>
        /\ Range(new_tickers) = Range(BIST_TICKERS) \ existing_tickers
        /\ InOrderOf(new_tickers, BIST_TICKERS)

\* C9 witness: a run whose missing list has two symbols or more and leaves
\* out a universe symbol found in the inventory.
C9_Witness ==
    /\ run >= 1
    /\ Len(new_tickers) >= 2
    /\ Range(BIST_TICKERS) \cap existing_tickers # {}

\* C10: the fetches of a run are the missing list: always a prefix of it,
\* the whole list when the batch returns, one attempt finished before the
\* next one starts.
C10_FetchSequence ==
    /\ IsPrefix(fetches, new_tickers)
    /\ batch_returned => fetches = new_tickers
    /\ pc = "fetch" => Len(fetches) = i - 1 /\ Len(outcomes) = i - 1
    /\ pc = "persist" => Len(fetches) = i /\ Len(outcomes) = i - 1
    /\ pc = "sleep" => Len(fetches) = i /\ Len(outcomes) = i

\* C10 witness: a batch of three that returned after a failed attempt.
C10_Witness ==
    /\ batch_returned
    /\ Len(fetches) = 3
    /\ \E k \in 1..2 : outcomes[k] # "ok"

\* C11: the mapping returned by download_multiple_tickers has a key for
\* every symbol of the work list and none for a symbol of the inventory.
C11_ResultsCoverWorkList ==
    batch_returned =>
        /\ DOMAIN results = Range(new_tickers)
        /\ DOMAIN results \cap existing_tickers = {}

\* C12: an attempt whose fetch raises or returns no rows leaves the data
\* directory as it was.
C12_NoArtifactWithoutData ==
    [][(pc = "fetch" /\ pc' # "persist") => data_dir' = data_dir]_vars

\* C12 witness: a run whose two attempts ended Empty and Failed, with the
\* directory still as it was when the run started.
C12_Witness ==
    /\ outcomes = <<"empty", "failed">>
    /\ data_dir = pre_dir

\* C13: a write that does not fail stores the fetched table under the
\* artifact name of the ticker and enters it in results, whatever
\* validate_data says about the table.
C13_PersistRegardlessOfValidation ==
    [][(/\ pc = "persist"
        /\ pc' # "crashed"
        /\ outcomes' # Append(outcomes, "write_error"))
       => /\ artifact_name(new_tickers[i]) \in DOMAIN data_dir'
          /\ data_dir'[artifact_name(new_tickers[i])]
               = Artifact(new_tickers[i], data)
          /\ new_tickers[i] \in DOMAIN results'
          /\ results'[new_tickers[i]] = data]_vars

\* C13 witness: the directory holds an artifact whose table lacks a required
\* column and one whose table has a non-positive close.
C13_Witness ==
    \E f, g \in DOMAIN data_dir :
        /\ data_dir[f].kind = "artifact" /\ data_dir[f].table = T_noVolume
        /\ data_dir[g].kind = "artifact" /\ data_dir[g].table = T_badClose
        /\ ~validate_data(data_dir[f].table)
        /\ ~validate_data(data_dir[g].table)

\* C14: every file that was in the data directory when the run started and
\* does not belong to a symbol of the run's missing list is still there,
\* with the same content.
C14_OldArtifactsUntouched ==
    \A f \in DOMAIN pre_dir :
        pre_dir[f].Ticker \notin Range(new_tickers)
            => f \in DOMAIN data_dir /\ data_dir[f] = pre_dir[f]

\* C15: validate_data returns False exactly when the table has no rows, or
\* lacks a required column, or has a close value that is not positive; null
\* cells alone do not fail it.
C15_ValidatePassed ==
    pc = "validated" =>
        (ret = "False" <=>
            \/ Len(data.Close) = 0
            \/ \E c \in REQUIRED_COLUMNS : c \notin data.columns
            \/ \E k \in 1..Len(data.Close) : data.Close[k] <= 0)

\* C15 witness: a table with null cells, all columns and positive closes was
\* validated and passed.
C15_Witness ==
    /\ pc = "validated"
    /\ data.nulls > 0
    /\ ret = "True"

\* C16: validate_data reports every defect of a non-empty table: the missing
\* required columns, the non-positive closes and the number of null cells,
\* also when an earlier rule has failed.
C16_CompleteDiagnostics ==
    (pc = "validated" /\ ~empty(data)) =>
        /\ REQUIRED_COLUMNS \ data.columns # {}
             => \E k \in 1..Len(log) :
                   /\ log[k].msg = "missing_columns"
                   /\ log[k].columns = REQUIRED_COLUMNS \ data.columns
        /\ ("Close" \in data.columns /\ \E k \in 1..Len(data.Close) : data.Close[k] <= 0)
             => \E k \in 1..Len(log) : log[k].msg = "invalid_close"
        /\ data.nulls > 0
             => \E k \in 1..Len(log) :
                   log[k].msg = "missing_values" /\ log[k].count = data.nulls

\* the file name has the form <symbol>_<period>_<interval>.csv
follows_naming_scheme(file) ==
    /\ endswith(file, CSV_SUFFIX)
    /\ LET parts == split_all(SubSeq(file, 1, Len(file) - Len(CSV_SUFFIX)), UNDERSCORE)
       IN Len(parts) = 3 /\ \A k \in 1..3 : parts[k] # <<>>

\* C17: only files named <symbol>_<period>_<interval>.csv contribute a
\* symbol to the scanned inventory.
C17_ScanSkipsMalformed ==
    run >= 1 =>
        existing_tickers =
            {ticker_name(f) : f \in {g \in DOMAIN pre_dir : follows_naming_scheme(g)}}

\* C18: every pause lasts delay_between_requests; there is one pause between
\* two consecutive attempts, also after a failed one, and none after the
\* last: N - 1 pauses when a batch of N returns.
C18_Pacing ==
    /\ \A k \in 1..Len(sleeps) : sleeps[k] = DOWNLOAD_SETTINGS.delay_between_requests
    /\ pc = "fetch" => Len(sleeps) = Len(fetches)
    /\ pc \in {"persist", "sleep", "finish", "crashed"} => Len(sleeps) = Len(fetches) - 1
    /\ batch_returned => Len(sleeps) = Len(new_tickers) - 1

\* C18 witness: a batch of three returned after two pauses, the first
\* attempt having failed.
C18_Witness ==
    /\ batch_returned
    /\ Len(new_tickers) = 3
    /\ Len(sleeps) = 2
    /\ outcomes[1] # "ok"

\* C19: a fetch that raises or returns no rows ends download_ticker_data
\* with a no-data return: the loop goes on, main's handler is not entered
\* and nothing is entered in results.
C19_NoExceptionEscapes ==
    [][(pc = "fetch" /\ pc' # "persist")
       => /\ pc' = after_attempt
          /\ ret' = "none"
          /\ results' = results
          /\ outcomes' \in {Append(outcomes, "failed"), Append(outcomes, "empty")}]_vars

\* C19 witness: the provider call raised and the loop is at its pause.
C19_Witness ==
    /\ pc = "sleep"
    /\ outcomes # <<>>
    /\ outcomes[Len(outcomes)] = "failed"

\* C20: when a run ends, the report has for every persisted symbol a row
\* whose status is Valid when validate_data accepts its table and Issues
\* otherwise, also for a table that lacks a required column.
C20_ReportFlagsValidation ==
    (pc = "done" /\ new_tickers # <<>>) =>
        \A t \in DOMAIN results :
            \E k \in 1..Len(report.rows) :
                /\ report.rows[k].Ticker = t
                /\ report.rows[k].Data_Quality
                     = IF validate_data(results[t]) THEN "Valid" ELSE "Issues"

C22_ConfigValidated ==
    (run >= 1 /\ (BIST_TICKERS = <<>>
                    \/ DOWNLOAD_SETTINGS.delay_between_requests <= 0))
        => /\ fetches = <<>>
           /\ data_dir = pre_dir
           /\ pc = "done" => ret = "False"

\* C23: the run is stopped only between two symbols, never between a fetch
\* and the end of its write; the stop leaves every complete artifact as it
\* is, and the run after it has exactly the universe symbols without a
\* complete artifact in its missing list.
C23_StopBetweenSymbols ==
    /\ [][pc' = "crashed" => pc = "sleep" /\ data_dir' = data_dir]_vars
    /\ [][(pc = "crashed" /\ run' = run + 1)
            => Range(new_tickers')
                 = Range(BIST_TICKERS) \ written_tickers(data_dir)]_vars

\* the directory holds a complete artifact of the ticker under the name that
\* the configured period and interval give it
has_own_artifact(dir, ticker) ==
    /\ artifact_name(ticker) \in DOMAIN dir
    /\ dir[artifact_name(ticker)].kind = "artifact"
    /\ dir[artifact_name(ticker)].Ticker = ticker

\* C25: where the directory held nothing but artifacts of earlier downloads
\* when the run started, a universe symbol is left out of the missing list
\* only if its artifact for the run's own period and interval was there, and
\* after a run whose attempts all succeeded every universe symbol has its
\* artifact for that period and interval.
C25_KeyedByPeriodInterval ==
    (run >= 1 /\ \A f \in DOMAIN pre_dir : pre_dir[f].kind = "artifact") =>
        /\ \A t \in Range(BIST_TICKERS) \ Range(new_tickers) :
              has_own_artifact(pre_dir, t)
        /\ (pc = "done" /\ \A k \in 1..Len(outcomes) : outcomes[k] = "ok")
              => \A t \in Range(BIST_TICKERS) : has_own_artifact(data_dir, t)

\* C26: repeated runs converge: a symbol whose fetch succeeded and was
\* written in a run is not in the missing list of the next run, and once a
\* run found the missing list empty the next run finds it empty too.
C26_Convergence ==
    /\ [][run' = run + 1
            => \A k \in 1..Len(outcomes) :
                  outcomes[k] = "ok" => fetches[k] \notin Range(new_tickers')]_vars
    /\ [][(run' = run + 1 /\ run >= 1 /\ pc = "done" /\ new_tickers = <<>>)
            => new_tickers' = <<>>]_vars

\* the file of the ticker was created or changed since the run started
written_in_call(ticker) ==
    /\ artifact_name(ticker) \in DOMAIN data_dir
    /\ artifact_name(ticker) \in DOMAIN pre_dir
          => data_dir[artifact_name(ticker)] # pre_dir[artifact_name(ticker)]

\* C27: when the batch returns, an attempted symbol is a key of results
\* exactly when its file was written during the call, and a symbol that is
\* not a key (reported as failed) has no file that the scan attributes to it.
C27_ResultsIffWritten ==
    batch_returned =>
        \A k \in 1..Len(fetches) :
            /\ fetches[k] \in DOMAIN results <=> written_in_call(fetches[k])
            /\ fetches[k] \notin DOMAIN results
                  => fetches[k] \notin get_existing_tickers(data_dir)

\* C28: for a universe that is not empty and any content of the directory,
\* the progress checker returns downloaded + missing = total, a percentage
\* between 0 and 100, and the missing set that get_new_tickers_to_download
\* computes on the same directory.
C28_ProgressConsistent ==
    (pc = "checked" /\ BIST_TICKERS # <<>>) =>
        /\ ~progress.raised
        /\ progress.downloaded + progress.missing = progress.total
        /\ 0 <= progress.progress.num
        /\ progress.progress.num <= 100 * progress.progress.den
        /\ progress.missing_tickers
             = Range(get_new_tickers_to_download(BIST_TICKERS, data_dir))

\* C29: a run that finds the missing list empty fetches nothing, leaves the
\* data directory as it was, writes no summary report and returns True.
C29_NothingToDo ==
    (run >= 1 /\ new_tickers = <<>>) =>
        /\ pc = "done"
        /\ ret = "True"
        /\ fetches = <<>>
        /\ results = NoResults
        /\ data_dir = pre_dir
        /\ ~report.written

\* C29 witness: a second run finds every symbol of a universe of two in the
\* inventory after the first run downloaded them.
C29_Witness ==
    /\ run = 2
    /\ pc = "done"
    /\ new_tickers = <<>>
    /\ Len(BIST_TICKERS) = 2
    /\ Range(BIST_TICKERS) \subseteq written_tickers(data_dir)

\* the symbol has the form <code>.IS with no underscore in the code
well_formed(ticker) ==
    /\ endswith(ticker, IS_SUFFIX)
    /\ ~contains(ticker, UNDERSCORE)
    /\ ~contains(SubSeq(ticker, 1, Len(ticker) - Len(IS_SUFFIX)), IS_SUFFIX)

\* C30: in the final count of a run over well-formed symbols, a csv file is
\* an existing one exactly when it belongs to a symbol that was in the
\* inventory before the run, and a new one exactly when it was written
\* during the run, also when the code of one symbol is part of another's.
C30_FileCount ==
    (/\ pc = "done" /\ ret = "True" /\ new_tickers # <<>>
     /\ \A k \in 1..Len(BIST_TICKERS) : well_formed(BIST_TICKERS[k])) =>
        \A f \in {g \in DOMAIN data_dir : endswith(g, CSV_SUFFIX)} :
            /\ f \in file_count.existing_files <=> ticker_name(f) \in existing_tickers
            /\ f \in file_count.new_files
                  <=> (f \notin DOMAIN pre_dir \/ data_dir[f] # pre_dir[f])

\* C24: the table loaded from the file of a saved table has the records of
\* the saved one: the same timestamps in the index, the same open, high,
\* low, close and volume in every row, and the symbol in the Ticker column.
C24_RoundTrip ==
    pc = "loaded" =>
        /\ DOMAIN results # {}
        /\ \A t \in DOMAIN results :
              /\ results[t].index = data.index
              /\ results[t].columns = data.columns
              /\ results[t].rows = data.rows
              /\ \A k \in 1..Len(results[t].rows) :
                    results[t].rows[k][Len(data.columns)] = StrCell(new_tickers[i])

====
